---- MODULE Spec2Model ----
(***************************************************************************)
(* Model of the two patch scripts update_pages.py and final_update.py.     *)
(*                                                                         *)
(* A text is a sequence of tokens.  Each token is a stretch of characters  *)
(* that every matcher of both scripts either contains whole or does not    *)
(* touch, so substring search on characters and subsequence search on      *)
(* tokens agree on the texts built from these tokens.  A run of ten spaces *)
(* is written SP2 SP8, so that the eight-space matchers also find it.      *)
(***************************************************************************)
EXTENDS Integers, Sequences, FiniteSets, TLC

VARIABLES
    script,     \* which script is running: "update_pages" or "final_update"
    run,        \* number of the current invocation of the script
    pc,         \* position in the script
    file,       \* the target file being processed
    content,    \* the in-memory buffer `content`
    disk,       \* on-disk content of the two target files
    out,        \* lines printed so far by the current invocation
    orig,       \* history: the buffer as it was read (or given to the rules)
    applied,    \* history: the steps executed, each with its occurrence count
    startDisk,  \* history: the disk when the current invocation started
    failed      \* the file whose open/read/write raised, or "none"

vars == <<script, run, pc, file, content, disk, out, orig, applied, startDisk, failed>>

(***************************************************************************)
(* Bounds of the model.                                                    *)
(***************************************************************************)
MaxFrags == 3    \* code fragments present in the two input files together
MaxRuns == 2     \* invocations of a script in a row
MaxPieces == 3   \* pieces of a buffer handed to a single rule
MaxApply == 2    \* rule applications on one buffer

(***************************************************************************)
(* Tokens.                                                                 *)
(***************************************************************************)
NL == "\n"
SP2 == "  "
SP8 == "        "
SEMI == ";"
otherCallback == "  const other = useCallback(() => {"
toInputDecl == "  const [toInput, setToInput] = useState('');"
addStationCmt == "  // Add station to list"
formErrorCmt == "  // Form validation error"
formErrorDecl == "  const [formError, setFormError] = useState('');"
addStationBody == "    if (type === 'from') setFromInput('');\n    else setToInput('');"
emptyDeps == "  }, []);"
formErrorDeps == "  }, [formError]);"
clearOnChange == "    // Clear form error when user makes changes\n    if (formError) setFormError('');"
addStationTag == "  // addStation"
removeStationBody == "      [..Stations]: prev[..Stations].filter((s) => s !== station),\n    }));"
updateFormHead == "  const updateForm = useCallback((key, value) => {\n    setForm((prev) => ({ ...prev, [key]: value }));"
alertStation == "alert('Please select at least one station for both origin and destination')"
setErrStation == "setFormError('Please select at least one station for both origin and destination')"
ifNoLocation == "      if (!fromLocation || !toLocation) {"
returnClose == "        return;\n      }"
tryOpen == "      try {"
clearOnSubmit == "      // Clear form error on valid submission\n      setFormError('');"
cardClose == "        </GlassmorphicCard>"
errorCmt == "        {/* Error */}"
formErrorUI == "        {/* Form Validation Error */}\n        {formError && (<div role=alert ...>{formError}</div>)}"
apiErrorCmt == "        {/* API Error */}"
errorOpen == "{error && ("
divPlain == "<div className=\"mb-8 p-4 ... text-red-400\">"
divAria == "<div\n            role=\"alert\"\n            aria-live=\"polite\"\n            className=\"mb-8 p-4 ... text-red-400\"\n          >"
formClose == "  });"
nearbyCmt == "  // Get nearby regions"
resetCmtHead == "    // Reset toRegion"
resetCmtTail == " when switching to nearby\n    if (key === 'useNearby' && value) {\n"
setNearby == "      setForm((prev) => ({ ...prev, toRegion: 'Nearby Regions' }));\n    }"
updateFormRegionTag == "  // updateForm Region"
alertOrigin == "alert('Please select a valid origin region')"
setErrOrigin == "setFormError('Please select a valid origin region')"
alertDest == "alert('Please select a valid destination region')"
setErrDest == "setFormError('Please select a valid destination region')"
fromParamHead == "      const fromParam = "
fromParamTail == "<form.fromPreference>-<fromId>;"

(***************************************************************************)
(* The string operations of Python, on token sequences.                    *)
(***************************************************************************)
\* p occurs in c at position i
IsAt(c, p, i) ==
    /\ i + Len(p) - 1 <= Len(c)
    /\ \A k \in 1..Len(p) : c[i + k - 1] = p[k]

\* positions of the non-overlapping occurrences of p in c from i on, scanning
\* left to right (str.count, and the matches str.replace / re.sub / str.split use)
RECURSIVE Occ(_, _, _)
Occ(c, p, i) ==
    IF i + Len(p) - 1 > Len(c) THEN <<>>
    ELSE IF IsAt(c, p, i) THEN <<i>> \o Occ(c, p, i + Len(p))
    ELSE Occ(c, p, i + 1)

Count(c, p) == Len(Occ(c, p, 1))

RECURSIVE ReplaceFrom(_, _, _, _, _)
ReplaceFrom(c, old, new, count, i) ==
    IF i > Len(c) THEN <<>>
    ELSE IF count # 0 /\ IsAt(c, old, i)
         THEN new \o ReplaceFrom(c, old, new, count - 1, i + Len(old))
    ELSE <<c[i]>> \o ReplaceFrom(c, old, new, count, i + 1)

\* c.replace(old, new, count); count = -1 (the default) replaces every occurrence
str_replace(c, old, new, count) == ReplaceFrom(c, old, new, count, 1)

\* A pattern is a sequence of segments, each a literal text, grouped (g > 0) or
\* not (g = 0): every pattern of final_update.py is such a sequence of escaped
\* literals.  Stray is a ")" that closes no group: the patterns that end in
\* "(  }, \[\]);)" leave the ")" of "[]);" unescaped, so it closes the group and
\* the pattern's last ")" is unbalanced.  A replacement template is a sequence
\* of literal texts (ref = 0) and group references (ref > 0).
Grp(n, toks) == [g |-> n, lit |-> toks]
Lit(toks) == [g |-> 0, lit |-> toks]
Stray == [g |-> -1, lit |-> <<>>]

\* re.compile(pattern) succeeds; otherwise re.sub raises re.error
Compiles(pattern) == \A k \in 1..Len(pattern) : pattern[k].g # -1
Ref(n) == [ref |-> n, lit |-> <<>>]
Txt(toks) == [ref |-> 0, lit |-> toks]

RECURSIVE Literal(_)
Literal(pattern) ==
    IF pattern = <<>> THEN <<>> ELSE Head(pattern).lit \o Literal(Tail(pattern))

Capture(pattern, n) ==
    LET k == CHOOSE j \in 1..Len(pattern) : pattern[j].g = n IN pattern[k].lit

RECURSIVE Expand(_, _)
Expand(repl, pattern) ==
    IF repl = <<>> THEN <<>>
    ELSE (IF Head(repl).ref = 0 THEN Head(repl).lit ELSE Capture(pattern, Head(repl).ref))
         \o Expand(Tail(repl), pattern)

\* re.sub(pattern, repl, c, count), for a pattern that compiles; count = 0 (the
\* default) replaces every match
re_sub(pattern, repl, c, count) ==
    ReplaceFrom(c, Literal(pattern), Expand(repl, pattern), IF count = 0 THEN -1 ELSE count, 1)

\* c.split(sep): the texts between the occurrences of sep (parts[k] here is
\* parts[k-1] in Python)
split(c, sep) ==
    LET occ == Occ(c, sep, 1) IN
    [k \in 1..(Len(occ) + 1) |->
        SubSeq(c, IF k = 1 THEN 1 ELSE occ[k - 1] + Len(sep),
                  IF k = Len(occ) + 1 THEN Len(c) ELSE occ[k] - 1)]

\* sep.join(parts)
RECURSIVE join(_, _)
join(sep, parts) ==
    IF parts = <<>> THEN <<>>
    ELSE IF Len(parts) = 1 THEN parts[1]
    ELSE parts[1] \o sep \o join(sep, Tail(parts))

(***************************************************************************)
(* The split-on-delimiter steps of final_update.py.                        *)
(***************************************************************************)
\* lines 33-36: parts = content.split("  }, []);"); if len(parts) >= 3:
\* parts[1] is extended (and not used again); content = parts[0] + parts[2]
SplitSecond(c) ==
    LET parts == split(c, <<emptyDeps>>) IN
    IF Len(parts) >= 3 THEN parts[1] \o parts[3] ELSE c

\* lines 46-49: if len(parts) >= 4: parts[2] is extended (and not used again);
\* content = parts[0] + parts[1] + "  }, [formError]);" + parts[3]
SplitThird(c) ==
    LET parts == split(c, <<emptyDeps>>) IN
    IF Len(parts) >= 4 THEN parts[1] \o parts[2] \o <<formErrorDeps>> \o parts[4] ELSE c

\* SplitFirstJoin with the remaining delimiters lost: the parts after the first
\* are concatenated, as the Station steps do, instead of joined
SplitFirstJoin_Concat(c) ==
    LET parts == split(c, <<emptyDeps>>) IN
    IF Len(parts) >= 2
    THEN (parts[1] \o <<formErrorDeps>>) \o join(<<>>, Tail(parts))
    ELSE c

\* lines 128-133: if len(parts) >= 2: parts[0] += "  }, [formError]);";
\* content = parts[0] + "  }, []);".join(parts[1:])
SplitFirstJoin(c) ==
    LET parts == split(c, <<emptyDeps>>) IN
    IF Len(parts) >= 2
    THEN (parts[1] \o <<formErrorDeps>>) \o join(<<emptyDeps>>, Tail(parts))
    ELSE c

(***************************************************************************)
(* The steps of the scripts.  kind "replace" is str.replace, "sub" is      *)
(* re.sub, the others are the split steps; line is the step's first line.  *)
(***************************************************************************)
Replace(id, line, old, new, count) ==
    [id |-> id, line |-> line, kind |-> "replace", pat |-> old, rep |-> new, count |-> count]
Sub(id, line, pattern, repl, count) ==
    [id |-> id, line |-> line, kind |-> "sub", pat |-> pattern, rep |-> repl, count |-> count]
SplitStep(id, line, kind) ==
    [id |-> id, line |-> line, kind |-> kind, pat |-> <<emptyDeps>>, rep |-> <<formErrorDeps>>, count |-> 1]

\* the validation block of the Station submit handler, before and after the alert rule
alertBlock == <<ifNoLocation, NL, SP8, alertStation, SEMI, NL, returnClose, NL, NL, tryOpen>>
setErrBlock == <<ifNoLocation, NL, SP8, setErrStation, SEMI, NL, returnClose, NL, NL, tryOpen>>

\* ---- update_pages.py, StationHaulingPage.jsx
UP_St_state == Replace("UP_St_state", 9,
    <<toInputDecl, NL, NL, addStationCmt>>,
    <<toInputDecl, NL, NL, formErrorCmt, NL, formErrorDecl, NL, NL, addStationCmt>>, -1)
UP_St_addStation == Replace("UP_St_addStation", 15,
    <<addStationBody, NL, emptyDeps>>,
    <<addStationBody, NL, clearOnChange, NL, formErrorDeps>>, -1)
UP_St_removeStation == Replace("UP_St_removeStation", 21,
    <<removeStationBody, NL, emptyDeps>>,
    <<removeStationBody, NL, clearOnChange, NL, formErrorDeps>>, -1)
UP_St_updateForm == Replace("UP_St_updateForm", 27,
    <<updateFormHead, NL, emptyDeps>>,
    <<updateFormHead, NL, clearOnChange, NL, formErrorDeps>>, -1)
UP_St_alert == Replace("UP_St_alert", 33,
    <<SP8, alertStation, SEMI>>, <<SP8, setErrStation, SEMI>>, -1)
UP_St_clear == Replace("UP_St_clear", 39,
    setErrBlock,
    <<ifNoLocation, NL, SP8, setErrStation, SEMI, NL, returnClose, NL, NL,
      clearOnSubmit, NL, NL, tryOpen>>, -1)
UP_St_ui == Replace("UP_St_ui", 45,
    <<cardClose, NL, NL, errorCmt>>,
    <<cardClose, NL, NL, formErrorUI, NL, NL, apiErrorCmt>>, -1)
UP_St_aria == Replace("UP_St_aria", 64,
    <<SP8, errorOpen, NL, SP2, SP8, divPlain>>,
    <<SP8, errorOpen, NL, SP2, SP8, divAria>>, -1)

UP_Station == <<UP_St_state, UP_St_addStation, UP_St_removeStation, UP_St_updateForm,
                UP_St_alert, UP_St_clear, UP_St_ui, UP_St_aria>>

\* ---- update_pages.py, RegionHaulingPage.jsx
UP_Rg_state == Replace("UP_Rg_state", 79,
    <<formClose, NL, NL, nearbyCmt>>,
    <<formClose, NL, NL, formErrorCmt, NL, formErrorDecl, NL, NL, nearbyCmt>>, -1)
UP_Rg_updateForm == Replace("UP_Rg_updateForm", 85,
    <<updateFormHead, NL, NL, resetCmtHead, resetCmtTail, setNearby, NL, emptyDeps>>,
    <<updateFormHead, NL, clearOnChange, NL, NL, resetCmtHead, resetCmtTail, setNearby,
      NL, formErrorDeps>>, -1)
\* UP_Rg_alertOrigin with the message of the destination alert pasted into its
\* matcher: the rule rewrites the destination alert and misses the origin alert
UP_Rg_alertOrigin_AnyAlert == Replace("UP_Rg_alertOrigin", 91,
    <<SP8, alertDest, SEMI>>, <<SP8, setErrOrigin, SEMI>>, -1)
UP_Rg_alertOrigin == Replace("UP_Rg_alertOrigin", 91,
    <<SP8, alertOrigin, SEMI>>, <<SP8, setErrOrigin, SEMI>>, -1)
UP_Rg_alertDest == Replace("UP_Rg_alertDest", 95,
    <<SP2, SP8, alertDest, SEMI>>, <<SP2, SP8, setErrDest, SEMI>>, -1)
UP_Rg_clear == Replace("UP_Rg_clear", 101,
    <<fromParamHead, fromParamTail>>,
    <<clearOnSubmit, NL, NL, fromParamHead, fromParamTail>>, -1)
UP_Rg_ui == Replace("UP_Rg_ui", 107,
    <<cardClose, NL, NL, errorCmt>>,
    <<cardClose, NL, NL, formErrorUI, NL, NL, apiErrorCmt>>, -1)
UP_Rg_aria == Replace("UP_Rg_aria", 126,
    <<SP8, errorOpen, NL, SP2, SP8, divPlain>>,
    <<SP8, errorOpen, NL, SP2, SP8, divAria>>, -1)

UP_Region == <<UP_Rg_state, UP_Rg_updateForm, UP_Rg_alertOrigin, UP_Rg_alertDest,
               UP_Rg_clear, UP_Rg_ui, UP_Rg_aria>>

\* ---- final_update.py, StationHaulingPage.jsx
FU_St_state == Sub("FU_St_state", 9,
    <<Grp(1, <<toInputDecl>>), Lit(<<NL>>)>>,
    <<Ref(1), Txt(<<NL, NL, formErrorCmt, NL, formErrorDecl, NL>>)>>, 1)
FU_St_addStation == Sub("FU_St_addStation", 17,
    <<Grp(1, <<addStationBody>>), Lit(<<NL>>), Grp(2, <<emptyDeps>>), Stray>>,
    <<Ref(1), Txt(<<NL, clearOnChange, NL>>), Ref(2)>>, 1)
FU_St_addStationTag == Replace("FU_St_addStationTag", 23,
    <<emptyDeps, addStationTag>>, <<formErrorDeps>>, 1)
FU_St_removeStation == Sub("FU_St_removeStation", 26,
    <<Grp(1, <<removeStationBody>>), Lit(<<NL>>), Grp(2, <<emptyDeps>>), Stray>>,
    <<Ref(1), Txt(<<NL, clearOnChange, NL>>), Ref(2)>>, 1)
FU_St_splitSecond == SplitStep("FU_St_splitSecond", 33, "split2")
FU_St_updateForm == Sub("FU_St_updateForm", 39,
    <<Grp(1, <<updateFormHead>>), Lit(<<NL>>), Grp(2, <<emptyDeps>>), Stray>>,
    <<Ref(1), Txt(<<NL, clearOnChange, NL>>), Ref(2)>>, 1)
FU_St_splitThird == SplitStep("FU_St_splitThird", 46, "split3")
FU_St_alert == Replace("FU_St_alert", 52, <<alertStation>>, <<setErrStation>>, -1)
FU_St_clear == Sub("FU_St_clear", 58,
    <<Grp(1, <<ifNoLocation, NL, SP8, setErrStation, SEMI, NL, returnClose>>),
      Lit(<<NL, NL>>), Grp(2, <<tryOpen>>)>>,
    <<Ref(1), Txt(<<NL, NL, clearOnSubmit, NL, NL>>), Ref(2)>>, 0)
FU_St_ui == Sub("FU_St_ui", 65,
    <<Grp(1, <<cardClose, NL, NL, errorCmt>>), Lit(<<NL, SP8, errorOpen>>)>>,
    <<Ref(1), Txt(<<NL, NL, formErrorUI, NL, NL, apiErrorCmt, NL, SP8, errorOpen>>)>>, 0)
FU_St_aria == Sub("FU_St_aria", 86,
    <<Grp(1, <<errorOpen, NL, SP2, SP8>>), Lit(<<divPlain>>)>>,
    <<Ref(1), Txt(<<divAria>>)>>, 0)

FU_Station == <<FU_St_state, FU_St_addStation, FU_St_addStationTag, FU_St_removeStation,
                FU_St_splitSecond, FU_St_updateForm, FU_St_splitThird, FU_St_alert,
                FU_St_clear, FU_St_ui, FU_St_aria>>

\* ---- final_update.py, RegionHaulingPage.jsx
FU_Rg_state == Sub("FU_Rg_state", 106,
    <<Grp(1, <<formClose>>), Lit(<<NL, NL>>), Grp(2, <<nearbyCmt>>)>>,
    <<Ref(1), Txt(<<NL, NL, formErrorCmt, NL, formErrorDecl, NL, NL>>), Ref(2)>>, 1)
FU_Rg_updateForm == Sub("FU_Rg_updateForm", 114,
    <<Grp(1, <<updateFormHead>>), Lit(<<NL, NL>>), Grp(2, <<resetCmtHead>>)>>,
    <<Ref(1), Txt(<<NL, clearOnChange, NL, NL>>), Ref(2)>>, 1)
FU_Rg_nearby == Sub("FU_Rg_nearby", 120,
    <<Grp(1, <<setNearby, NL, emptyDeps>>), Stray>>, <<Ref(1)>>, 1)
FU_Rg_updateFormTag == Replace("FU_Rg_updateFormTag", 126,
    <<emptyDeps, updateFormRegionTag>>, <<formErrorDeps>>, 1)
FU_Rg_splitFirst == SplitStep("FU_Rg_splitFirst", 128, "splitjoin")
FU_Rg_alertOrigin == Replace("FU_Rg_alertOrigin", 136, <<alertOrigin>>, <<setErrOrigin>>, -1)
FU_Rg_alertDest == Replace("FU_Rg_alertDest", 140, <<alertDest>>, <<setErrDest>>, -1)
FU_Rg_clear == Sub("FU_Rg_clear", 146,
    <<Grp(1, <<NL, fromParamHead>>)>>,
    <<Txt(<<NL, clearOnSubmit, NL, NL>>), Ref(1)>>, 1)
FU_Rg_ui == Sub("FU_Rg_ui", 154,
    <<Grp(1, <<cardClose, NL, NL, errorCmt>>), Lit(<<NL, SP8, errorOpen>>)>>,
    <<Ref(1), Txt(<<NL, NL, formErrorUI, NL, NL, apiErrorCmt, NL, SP8, errorOpen>>)>>, 0)
FU_Rg_aria == Sub("FU_Rg_aria", 175,
    <<Grp(1, <<errorOpen, NL, SP2, SP8>>), Lit(<<divPlain>>)>>,
    <<Ref(1), Txt(<<divAria>>)>>, 0)

FU_Region == <<FU_Rg_state, FU_Rg_updateForm, FU_Rg_nearby, FU_Rg_updateFormTag,
               FU_Rg_splitFirst, FU_Rg_alertOrigin, FU_Rg_alertDest, FU_Rg_clear,
               FU_Rg_ui, FU_Rg_aria>>

Scripts == {"update_pages", "final_update"}
Files == {"Station", "Region"}

\* the steps a script applies to a file, in the order of the source
Pipeline(s, f) ==
    IF s = "update_pages"
    THEN (IF f = "Station" THEN UP_Station ELSE UP_Region)
    ELSE (IF f = "Station" THEN FU_Station ELSE FU_Region)

\* the text a step searches for
Matcher(st) == IF st.kind = "sub" THEN Literal(st.pat) ELSE st.pat

\* number of occurrences of the step's matcher in c
Hits(st, c) == Count(c, Matcher(st))

\* the step raises re.error whatever the buffer is
Raises(st) == st.kind = "sub" /\ ~Compiles(st.pat)

\* the buffer after a step that does not raise
ApplyStep(st, c) ==
    CASE st.kind = "replace" -> str_replace(c, st.pat, st.rep, st.count)
      [] st.kind = "sub" -> re_sub(st.pat, st.rep, c, st.count)
      [] st.kind = "split2" -> SplitSecond(c)
      [] st.kind = "split3" -> SplitThird(c)
      [] st.kind = "splitjoin" -> SplitFirstJoin(c)

\* the buffer after all the steps of a pipeline
RECURSIVE RunSteps(_, _)
RunSteps(steps, c) ==
    IF steps = <<>> THEN c ELSE RunSteps(Tail(steps), ApplyStep(Head(steps), c))

(***************************************************************************)
(* Input files.  A target file is a selection, in file order, of the code  *)
(* fragments the matchers were written against.                            *)
(***************************************************************************)
StationFrags == <<
    <<toInputDecl, NL, NL, addStationCmt, NL>>,
    <<addStationBody, NL, emptyDeps, NL>>,
    <<removeStationBody, NL, emptyDeps, NL>>,
    <<updateFormHead, NL, emptyDeps, NL>>,
    alertBlock \o <<NL>>,
    <<otherCallback, NL, emptyDeps, NL>>,
    <<cardClose, NL, NL, errorCmt, NL, SP8, errorOpen, NL, SP2, SP8, divPlain, NL>> >>

RegionFrags == <<
    <<formClose, NL, NL, nearbyCmt, NL>>,
    <<updateFormHead, NL, NL, resetCmtHead, resetCmtTail, setNearby, NL, emptyDeps, NL>>,
    <<otherCallback, NL, emptyDeps, NL>>,
    <<SP8, alertOrigin, SEMI, NL, SP2, SP8, alertDest, SEMI, NL>>,
    <<fromParamHead, fromParamTail, NL>>,
    <<cardClose, NL, NL, errorCmt, NL, SP8, errorOpen, NL, SP2, SP8, divPlain, NL>> >>

\* the fragments of frags whose index is in sel, from index i on, concatenated
RECURSIVE Select(_, _, _)
Select(frags, sel, i) ==
    IF i > Len(frags) THEN <<>>
    ELSE (IF i \in sel THEN frags[i] ELSE <<>>) \o Select(frags, sel, i + 1)

\* the pairs of input files of at most MaxFrags fragments
Inputs ==
    { [Station |-> Select(StationFrags, S, 1), Region |-> Select(RegionFrags, R, 1)] :
        <<S, R>> \in { x \in (SUBSET (1..Len(StationFrags))) \X (SUBSET (1..Len(RegionFrags))) :
                        Cardinality(x[1]) + Cardinality(x[2]) <= MaxFrags } }

(***************************************************************************)
(* A run of a script.                                                      *)
(***************************************************************************)
\* the printed lines (final_update.py puts a check mark before them)
UpdatedMsg(s, f) ==
    IF f = "Station" THEN "Updated StationHaulingPage.jsx" ELSE "Updated RegionHaulingPage.jsx"
SuccessMsg(s) ==
    IF s = "update_pages" THEN "All files updated successfully!"
    ELSE "All changes applied successfully!"

\* the steps of the current file that are already executed
Done == Len(applied) - (IF file = "Region" THEN Len(Pipeline(script, "Station")) ELSE 0)

\* the step the script is at, when pc = "step"
CurStep == Pipeline(script, file)[Done + 1]

\* where the script goes after one more step of the current file
AfterStep == IF Done + 1 = Len(Pipeline(script, file)) THEN "open_w" ELSE "step"

\* the exit status of the process: 0 at the end of the script, 1 after an
\* uncaught exception, -1 while it runs
ExitCode == IF pc = "done" THEN 0 ELSE IF pc = "crashed" THEN 1 ELSE -1

Init ==
    /\ script \in Scripts
    /\ disk \in Inputs
    /\ startDisk = disk
    /\ run = 1
    /\ pc = "open_r"
    /\ file = "Station"
    /\ content = <<>>
    /\ orig = <<>>
    /\ out = <<>>
    /\ applied = <<>>
    /\ failed = "none"

\* with open(path, 'r') as f: content = f.read()
OpenRead ==
    /\ pc = "open_r"
    /\ content' = disk[file]
    /\ orig' = disk[file]
    /\ pc' = "step"
    /\ UNCHANGED <<script, run, file, disk, out, applied, startDisk, failed>>

\* open(path, 'r') or f.read() raises OSError: the script ends with a traceback
ReadFail ==
    /\ pc = "open_r"
    /\ pc' = "crashed"
    /\ failed' = file
    /\ UNCHANGED <<script, run, file, content, disk, out, orig, applied, startDisk>>

\* content = content.replace(old, new[, count])
StrReplaceStep ==
    /\ pc = "step"
    /\ CurStep.kind = "replace"
    /\ content' = ApplyStep(CurStep, content)
    /\ applied' = Append(applied, [id |-> CurStep.id, hits |-> Hits(CurStep, content)])
    /\ pc' = AfterStep
    /\ UNCHANGED <<script, run, file, disk, out, orig, startDisk, failed>>

\* content = re.sub(pattern, repl, content[, count]) with a pattern that compiles
ReSubStep ==
    /\ pc = "step"
    /\ CurStep.kind = "sub"
    /\ ~Raises(CurStep)
    /\ content' = ApplyStep(CurStep, content)
    /\ applied' = Append(applied, [id |-> CurStep.id, hits |-> Hits(CurStep, content)])
    /\ pc' = AfterStep
    /\ UNCHANGED <<script, run, file, disk, out, orig, startDisk, failed>>

\* re.sub with a pattern that does not compile: re.error, uncaught, ends the script
ReSubError ==
    /\ pc = "step"
    /\ Raises(CurStep)
    /\ pc' = "crashed"
    /\ UNCHANGED <<script, run, file, content, disk, out, orig, applied, startDisk, failed>>

\* with open(path, 'w') as f: opening for writing truncates the file
OpenWrite ==
    /\ pc = "open_w"
    /\ disk' = [disk EXCEPT ![file] = <<>>]
    /\ pc' = "write"
    /\ UNCHANGED <<script, run, file, content, out, orig, applied, startDisk, failed>>

\* open(path, 'w') raises OSError before the file is touched
OpenWriteFail ==
    /\ pc = "open_w"
    /\ pc' = "crashed"
    /\ failed' = file
    /\ UNCHANGED <<script, run, file, content, disk, out, orig, applied, startDisk>>

\* f.write(content), and the close at the end of the with block
Write ==
    /\ pc = "write"
    /\ disk' = [disk EXCEPT ![file] = content]
    /\ pc' = "print"
    /\ UNCHANGED <<script, run, file, content, out, orig, applied, startDisk, failed>>

\* f.write(content) or the flush at close raises OSError: the file keeps what
\* reached it, nothing or the first half of the buffer here
WriteFail ==
    /\ pc = "write"
    /\ \E n \in {0, Len(content) \div 2} :
          disk' = [disk EXCEPT ![file] = SubSeq(content, 1, n)]
    /\ pc' = "crashed"
    /\ failed' = file
    /\ UNCHANGED <<script, run, file, content, out, orig, applied, startDisk>>

\* print("Updated ...") after a file is written; the Region file comes next
PrintUpdated ==
    /\ pc = "print"
    /\ out' = Append(out, UpdatedMsg(script, file))
    /\ IF file = "Station"
       THEN file' = "Region" /\ pc' = "open_r"
       ELSE file' = file /\ pc' = "final"
    /\ UNCHANGED <<script, run, content, disk, orig, applied, startDisk, failed>>

\* the last print of the script, then the process exits with status 0
PrintSuccess ==
    /\ pc = "final"
    /\ out' = Append(out, SuccessMsg(script))
    /\ pc' = "done"
    /\ UNCHANGED <<script, run, file, content, disk, orig, applied, startDisk, failed>>

\* the script is invoked again on the files it has patched
Rerun ==
    /\ pc = "done"
    /\ run < MaxRuns
    /\ run' = run + 1
    /\ startDisk' = disk
    /\ pc' = "open_r"
    /\ file' = "Station"
    /\ content' = <<>>
    /\ orig' = <<>>
    /\ out' = <<>>
    /\ applied' = <<>>
    /\ UNCHANGED <<script, disk, failed>>

Next ==
    \/ OpenRead
    \/ ReadFail
    \/ StrReplaceStep
    \/ ReSubStep
    \/ ReSubError
    \/ OpenWrite
    \/ OpenWriteFail
    \/ Write
    \/ WriteFail
    \/ PrintUpdated
    \/ PrintSuccess
    \/ Rerun

Spec == Init /\ [][Next]_vars

(***************************************************************************)
(* Single statements applied to a buffer: the rules as functions.          *)
(***************************************************************************)
\* the last piece is an origin alert that is not indented as in the target
\* file: the matcher of update_pages.py, which includes the indentation, misses it
RulePieces == {
    <<toInputDecl, NL>>,
    <<emptyDeps>>,
    <<SP8, alertOrigin, SEMI, NL>>,
    <<SP2, SP8, alertDest, SEMI, NL>>,
    <<alertOrigin, SEMI, NL>> }

\* the buffers made of n pieces
RECURSIVE Buffers(_)
Buffers(n) ==
    IF n = 0 THEN {<<>>} ELSE { p \o b : p \in RulePieces, b \in Buffers(n - 1) }

RuleInputs == UNION { Buffers(n) : n \in 0..MaxPieces }

RuleInit ==
    /\ script = "none"
    /\ run = 0
    /\ pc = "rule"
    /\ file = "none"
    /\ orig \in RuleInputs
    /\ content = orig
    /\ disk = [f \in Files |-> <<>>]
    /\ startDisk = disk
    /\ out = <<>>
    /\ applied = <<>>
    /\ failed = "none"

\* one statement of a script executed on the buffer
ApplyRule(st) ==
    /\ pc = "rule"
    /\ Len(applied) < MaxApply
    /\ content' = ApplyStep(st, content)
    /\ applied' = Append(applied, [id |-> st.id, hits |-> Hits(st, content)])
    /\ UNCHANGED <<script, run, pc, file, disk, out, orig, startDisk, failed>>

Rule_FU_St_state == pc = "rule" /\ ApplyRule(FU_St_state)
Rule_FU_St_splitSecond == pc = "rule" /\ ApplyRule(FU_St_splitSecond)
Rule_FU_St_splitThird == pc = "rule" /\ ApplyRule(FU_St_splitThird)
Rule_FU_Rg_splitFirst == pc = "rule" /\ ApplyRule(FU_Rg_splitFirst)
Rule_UP_Rg_alertOrigin == pc = "rule" /\ ApplyRule(UP_Rg_alertOrigin)
Rule_UP_Rg_alertDest == pc = "rule" /\ ApplyRule(UP_Rg_alertDest)
Rule_FU_Rg_alertOrigin == pc = "rule" /\ ApplyRule(FU_Rg_alertOrigin)
Rule_FU_Rg_alertDest == pc = "rule" /\ ApplyRule(FU_Rg_alertDest)

RuleNext ==
    \/ Rule_FU_St_state
    \/ Rule_FU_St_splitSecond
    \/ Rule_FU_St_splitThird
    \/ Rule_FU_Rg_splitFirst
    \/ Rule_UP_Rg_alertOrigin
    \/ Rule_UP_Rg_alertDest
    \/ Rule_FU_Rg_alertOrigin
    \/ Rule_FU_Rg_alertDest

RuleSpec == RuleInit /\ [][RuleNext]_vars

(***************************************************************************)
(* Properties.                                                             *)
(***************************************************************************)
Range(q) == { q[k] : k \in 1..Len(q) }
Ids(q) == [k \in 1..Len(q) |-> q[k].id]
Terminated == pc \in {"done", "crashed"}

\* c with every token a replaced by b, position by position
Subst(c, a, b) == [k \in 1..Len(c) |-> IF c[k] = a THEN b ELSE c[k]]

\* c with only the n-th "  }, []);" replaced by "  }, [formError]);"
ReplaceNth(c, n) ==
    LET occ == Occ(c, <<emptyDeps>>, 1) IN
    [k \in 1..Len(c) |-> IF k = occ[n] THEN formErrorDeps ELSE c[k]]

\* every step of both pipelines was executed and found its matcher
AllMatched ==
    /\ Len(applied) = Len(Pipeline(script, "Station")) + Len(Pipeline(script, "Region"))
    /\ \A k \in 1..Len(applied) : applied[k].hits >= 1

\* C1: a second run of update_pages.py on the files its first run patched finds
\* no rule matching and leaves both files as they were
C1_RerunIsNoOp ==
    (script = "update_pages" /\ run >= 2 /\ pc = "done")
        => (disk = startDisk /\ \A k \in 1..Len(applied) : applied[k].hits = 0)

\* C2: a file on disk is untouched until its pipeline has run, and when the
\* script has ended, by its last line or by an exception, each file holds
\* either what it held at the start or the complete final buffer of its pipeline
C2_AllOrNothingWrite ==
    \A f \in Files :
        /\ ((f = file /\ pc \in {"open_r", "step", "open_w"}) \/ (f = "Region" /\ file = "Station"))
              => disk[f] = startDisk[f]
        /\ Terminated
              => (disk[f] = startDisk[f]
                    \/ disk[f] = RunSteps(Pipeline(script, f), startDisk[f]))

\* C3: when a script has run without I/O failure on a Station file whose
\* validation block still holds the alert, the file holds the inserted
\* "setFormError('');" clear line
C3_ClearLineInserted ==
    (run = 1 /\ Terminated /\ failed = "none" /\ Count(startDisk["Station"], alertBlock) >= 1)
        => Count(disk["Station"], <<clearOnSubmit>>) >= 1

\* C4: a step whose matcher has no occurrence in the buffer leaves the buffer
\* as it is, and the script goes on with the step that follows
C4_MissLeavesBufferUnchanged ==
    [][(pc = "step" /\ Hits(CurStep, content) = 0)
          => (content' = content /\ pc' \in {"step", "open_w"})]_vars

\* C5: when update_pages.py fails to read or write the Station file, the Region
\* file is still patched and written; when it fails on the Region file, the
\* Station file is patched and written as in a run without failure
C5_FailureIsolatedPerFile ==
    (script = "update_pages" /\ pc = "crashed" /\ failed # "none")
        => LET other == IF failed = "Station" THEN "Region" ELSE "Station" IN
           disk[other] = RunSteps(Pipeline(script, other), startDisk[other])

\* C6: a run that has ended reports success (exit status 0 and the final
\* message) exactly when every step of both files found its matcher
C6_SuccessIffAllMatched ==
    Terminated => ((ExitCode = 0 /\ SuccessMsg(script) \in Range(out)) <=> AllMatched)

\* C7: on a buffer with one toInput line and no formError declaration, the
\* first application of the state rule of final_update.py inserts one
\* declaration and every later application replaces nothing
C7_StateRuleAppliesOnce ==
    ( /\ Count(orig, <<toInputDecl, NL>>) = 1
      /\ Count(orig, <<formErrorDecl>>) = 0
      /\ Len(applied) >= 1
      /\ \A k \in 1..Len(applied) : applied[k].id = "FU_St_state" )
        => /\ Count(content, <<formErrorDecl>>) = 1
           /\ applied[1].hits = 1
           /\ \A k \in 2..Len(applied) : applied[k].hits = 0

\* the origin and destination alert rules of a script
OriginRule(s) == IF s = "update_pages" THEN UP_Rg_alertOrigin ELSE FU_Rg_alertOrigin
DestRule(s) == IF s = "update_pages" THEN UP_Rg_alertDest ELSE FU_Rg_alertDest

\* the buffer holds one origin alert and one destination alert, each written
\* as the rules of script s look for it (update_pages.py: on a line of its own,
\* indented by 8 and by 10 spaces, with its ";")
OneAlertEach(s, c) ==
    /\ Count(c, <<alertOrigin>>) = 1
    /\ Count(c, <<alertDest>>) = 1
    /\ Hits(OriginRule(s), c) = 1
    /\ Hits(DestRule(s), c) = 1

C9_SplitStepsRewriteOneDelimiter ==
    /\ (Ids(applied) = <<"FU_St_splitSecond">> /\ Count(orig, <<emptyDeps>>) >= 2)
          => content = ReplaceNth(orig, 2)
    /\ (Ids(applied) = <<"FU_St_splitThird">> /\ Count(orig, <<emptyDeps>>) >= 3)
          => content = ReplaceNth(orig, 3)

\* C10: on a buffer with at least one occurrence of "  }, []);" the split/join
\* step of lines 127-133 gives content.replace("  }, []);", "  }, [formError]);", 1):
\* the first occurrence replaced, everything else in place
C10_SplitJoinReplacesFirst ==
    (Ids(applied) = <<"FU_Rg_splitFirst">> /\ Count(orig, <<emptyDeps>>) >= 1)
        => /\ content = str_replace(orig, <<emptyDeps>>, <<formErrorDeps>>, 1)
           /\ content = ReplaceNth(orig, 1)

\* the split/join step has run on a buffer with two delimiters and text between
C10_Witness ==
    /\ Ids(applied) = <<"FU_Rg_splitFirst">>
    /\ Count(orig, <<emptyDeps>>) = 2
    /\ Count(content, <<emptyDeps>>) = 1
    /\ Count(content, <<formErrorDeps>>) = 1
    /\ Len(content) = 4

\* In a run, final_update.py never gets past its second statement: no file is
\* written and nothing is printed
FinalUpdateWritesNothing ==
    script = "final_update" => (disk = startDisk /\ out = <<>> /\ Len(applied) <= 1)

====
